---- MODULE Spec2Model ----
(***************************************************************************)
(* Session state machine of the dream pipeline (src/app.py) together with  *)
(* the service wrappers it calls (src/services/*.py).                      *)
(*                                                                         *)
(* One action is one run of the Streamlit script: the script is re-run     *)
(* from the top on every widget event and after every st.rerun(), and in   *)
(* each run at most one of its blocks acts (each block ends in st.rerun()  *)
(* or in an uncaught exception).  The external providers (Whisper,         *)
(* moderation, the chat model with its output parser, DALL-E, the          *)
(* temporary file system) are inputs drawn from small sets of outcomes.    *)
(*                                                                         *)
(* Texts are strings; the Korean user messages are written as short        *)
(* English strings.  Image results are sequences of tokens, so that        *)
(* startswith("http") and substring tests can be computed.                 *)
(***************************************************************************)
EXTENDS Integers, Sequences, FiniteSets, TLC

-----------------------------------------------------------------------------
(* Bounds *)

\* number of distinct audio inputs (recordings / uploads) a user may supply
MaxAudio == 2

-----------------------------------------------------------------------------
(* Python values *)

\* None / a present value (an optional is a sequence of length 0 or 1)
None == <<>>
Some(x) == <<x>>

NoAudio == 0
AudioInputs == 1..MaxAudio

\* session_defaults, app.py line 99
session_defaults ==
  [ dream_text              |-> "",
    original_dream_text     |-> "",
    analysis_started        |-> FALSE,
    audio_processed         |-> FALSE,
    dream_report            |-> None,
    nightmare_prompt        |-> "",
    reconstructed_prompt    |-> "",
    transformation_summary  |-> "",
    keyword_mappings        |-> <<>>,
    nightmare_image_url     |-> <<>>,
    reconstructed_image_url |-> <<>>,
    nightmare_keywords      |-> <<>> ]

\* initialize_session_state(): every key is overwritten by its default
initialize_session_state(s) == [k \in DOMAIN s |-> session_defaults[k]]

-----------------------------------------------------------------------------
(* Provider outcomes (inputs of the wrappers) *)

\* what the Whisper call does inside transcribe_audio
Transcripts == {"", "chased by a shadow in a dark forest"}
\* the failures drawn: a credential failure, a transient one and an
\* unexpected one (a missing file and a connection failure return their
\* message in the same way)
SttFailureKinds == {"auth", "rate_limit", "unknown"}
SttOutcomes ==
  [kind : {"ok"}, text : Transcripts] \cup [kind : SttFailureKinds, text : {""}]

\* what the moderation call does inside check_text_safety
ModerationOutcomes == {"clean", "flagged", "error"}

\* what NamedTemporaryFile / write do in the audio block
TempFileOutcomes == {"ok", "create_fails", "write_fails"}

\* Report objects the output parser can accept: the schema (Emotion, Report)
\* fixes the field types only.  Scores are in hundredths (0.8 is 80).
GoodReport ==
  [ emotions |-> << [emotion |-> "fear", score |-> 80] >>,
    keywords |-> << "forest", "shadow" >>,
    analysis_summary |-> "summary grounded in the knowledge base" ]
BlankReport ==
  [ emotions |-> <<>>, keywords |-> <<>>,
    analysis_summary |-> "nothing notable" ]
OddReport ==
  [ emotions |-> << [emotion |-> "fear", score |-> 150] >>,
    keywords |-> <<>>,
    analysis_summary |-> "summary" ]
ParsedReports == {GoodReport, OddReport}

\* what the retriever returns for the dream text: no passage (an index
\* without passages) or the most similar passages, in order
RetrievedDocs == { <<>>, << "passage on being chased", "passage on shadows" >> }

\* what the chain retriever | prompt | llm | parser does: the documents
\* retrieved, then what the chat model and the parser make of the request
ReportChainOutcomes ==
  [kind : {"parsed"}, report : ParsedReports, docs : RetrievedDocs]
    \cup [kind : {"provider_error", "schema_error"}, report : {BlankReport},
          docs : RetrievedDocs]

\* what the chain prompt | llm | StrOutputParser does
NightmareChainOutcomes ==
  [kind : {"text"}, text : {"", "a dark forest with a looming shadow"}]
    \cup [kind : {"provider_error"}, text : {""}]

\* ReconstructionOutput objects the output parser can accept
GoodReconstruction ==
  [ reconstructed_prompt |-> "a sunlit forest with a guiding light",
    transformation_summary |-> "the shadow became a guiding light",
    keyword_mappings |-> << [original |-> "forest", transformed |-> "garden"],
                            [original |-> "shadow", transformed |-> "light"],
                            [original |-> "chase",  transformed |-> "walk"] >> ]
OddReconstruction ==
  [ reconstructed_prompt |-> "a forest",
    transformation_summary |-> "little changed",
    keyword_mappings |-> << [original |-> "forest", transformed |-> "forest"] >> ]
ParsedReconstructions == {GoodReconstruction, OddReconstruction}

ReconstructionChainOutcomes ==
  [kind : {"parsed"}, output : ParsedReconstructions]
    \cup [kind : {"provider_error", "schema_error"}, output : {OddReconstruction}]

\* what client.images.generate does.  api_error is an APIError that carries
\* an HTTP response (status_code, response.text); api_connection_error is
\* the APIError raised when no response was received, which has neither
\* attribute; other_error is any other Exception, body its str().
ImageOutcomes ==
  { [kind |-> "url",        status |-> "200", body |-> <<"http", "//img/1.png">>],
    [kind |-> "no_url",     status |-> "200", body |-> <<>>],
    [kind |-> "api_error",  status |-> "401", body |-> <<"invalid_api_key">>],
    [kind |-> "api_error",  status |-> "429", body |-> <<"rate_limit_exceeded">>],
    [kind |-> "api_error",  status |-> "500", body |-> <<"server_error">>],
    [kind |-> "api_connection_error", status |-> "", body |-> <<"Connection error.">>],
    [kind |-> "other_error", status |-> "", body |-> <<"timeout">>] }

-----------------------------------------------------------------------------
(* Service wrappers *)

\* STTService.transcribe_audio: every exception is turned into a message
\* that is returned like a transcript
transcribe_audio(stt) ==
  CASE stt.kind = "ok"         -> stt.text
    [] stt.kind = "not_found"  -> "audio file not found"
    [] stt.kind = "auth"       -> "error: OpenAI API key is invalid"
    [] stt.kind = "rate_limit" -> "error: API rate limit exceeded"
    [] stt.kind = "connection" -> "error: cannot connect to OpenAI server"
    [] OTHER                   -> "unknown error during transcription"

\* variant: an error of the moderation call lets the text pass
check_text_safety_fail_open(text, mod) ==
  CASE mod = "flagged" -> [flagged |-> TRUE,  text |-> "input may violate the safety policy"]
    [] mod = "clean"   -> [flagged |-> FALSE, text |-> "safe"]
    [] OTHER           -> [flagged |-> FALSE, text |-> "error during the safety check"]

\* ModerationService.check_text_safety
check_text_safety(text, mod) ==
  CASE mod = "flagged" -> [flagged |-> TRUE,  text |-> "input may violate the safety policy"]
    [] mod = "clean"   -> [flagged |-> FALSE, text |-> "safe"]
    [] OTHER           -> [flagged |-> TRUE,  text |-> "error during the safety check"]

\* the report returned from the except branch of generate_report_with_rag
DegradedReport(kind) ==
  [ emotions |-> <<>>, keywords |-> <<>>,
    analysis_summary |->
      IF kind = "schema_error"
      THEN "error while generating the RAG report: output parsing failed"
      ELSE "error while generating the RAG report: provider error" ]

\* ReportGeneratorService._format_docs: "\n\n".join of the page contents
RECURSIVE format_docs(_)
format_docs(docs) ==
  IF docs = <<>> THEN <<>>
  ELSE IF Len(docs) = 1 THEN << docs[1] >>
  ELSE << docs[1], "\n\n" >> \o format_docs(Tail(docs))

\* the request the chain sends to the chat model (lines 74-77): the
\* formatted context and the dream text, filled into the prompt
ChatRequest(docs, dream_text) ==
  [context |-> format_docs(docs), dream_text |-> dream_text]

\* variant: no except branch, the chain's exception leaves the method
generate_report_with_rag_raising(retriever, dream_text, out) ==
  IF ~retriever
  THEN [raised |-> TRUE, value |-> BlankReport, request |-> None]
  ELSE IF out.kind = "parsed"
       THEN [raised |-> FALSE, value |-> out.report,
             request |-> Some(ChatRequest(out.docs, dream_text))]
       ELSE [raised |-> TRUE, value |-> BlankReport,
             request |-> Some(ChatRequest(out.docs, dream_text))]

\* variant: an empty retrieval is treated as an error
generate_report_with_rag_needing_docs(retriever, dream_text, out) ==
  IF ~retriever
  THEN [raised |-> TRUE, value |-> BlankReport, request |-> None]
  ELSE IF out.docs = <<>>
       THEN [raised |-> FALSE, value |-> DegradedReport("provider_error"),
             request |-> None]
       ELSE IF out.kind = "parsed"
            THEN [raised |-> FALSE, value |-> out.report,
                  request |-> Some(ChatRequest(out.docs, dream_text))]
            ELSE [raised |-> FALSE, value |-> DegradedReport(out.kind),
                  request |-> Some(ChatRequest(out.docs, dream_text))]

\* ReportGeneratorService.generate_report_with_rag.  A result is
\* [raised, value, request]: raised means an exception leaves the method,
\* request is what was sent to the chat model, if anything.
generate_report_with_rag(retriever, dream_text, out) ==
  IF ~retriever
  THEN [raised |-> TRUE, value |-> BlankReport, request |-> None]
  ELSE IF out.kind = "parsed"
       THEN [raised |-> FALSE, value |-> out.report,
             request |-> Some(ChatRequest(out.docs, dream_text))]
       ELSE [raised |-> FALSE, value |-> DegradedReport(out.kind),
             request |-> Some(ChatRequest(out.docs, dream_text))]

\* DreamAnalyzerService.create_nightmare_prompt: no try/except, the chain's
\* exception leaves the method
create_nightmare_prompt(dream_text, dream_report, out) ==
  IF out.kind = "text"
  THEN [raised |-> FALSE, value |-> out.text]
  ELSE [raised |-> TRUE,  value |-> ""]

\* DreamAnalyzerService.create_reconstructed_prompt_and_analysis: no
\* try/except; the parser's exception leaves the method as well
create_reconstructed_prompt_and_analysis(dream_text, dream_report, out) ==
  IF out.kind = "parsed"
  THEN [raised |-> FALSE, value |-> out.output]
  ELSE [raised |-> TRUE,  value |-> out.output]

\* ImageGeneratorService.generate_image_from_prompt.  A result is
\* [raised, value].  The handler of APIError reads e.status_code and
\* e.response.text (lines 41-45): on an APIError without them the read
\* raises AttributeError inside the handler, which the later
\* `except Exception` clause of the same try does not catch.
generate_image_from_prompt(prompt, img) ==
  CASE img.kind = "url"       -> [raised |-> FALSE, value |-> img.body]
    [] img.kind = "no_url"    ->
         [raised |-> FALSE,
          value |-> <<"image generation failed: no valid image URL">>]
    [] img.kind = "api_error" ->
         [raised |-> FALSE,
          value |-> <<"OpenAI API error:", img.status, "-">> \o img.body]
    [] img.kind = "api_connection_error" -> [raised |-> TRUE, value |-> <<>>]
    [] OTHER                  ->
         [raised |-> FALSE,
          value |-> <<"error during image generation:">> \o img.body]

\* str.startswith("http") on an image result
StartsWithHttp(s) == Len(s) > 0 /\ s[1] = "http"

\* `needle in raw` for an image result: the needles tested are whole tokens
Contains(raw, needle) == \E i \in DOMAIN raw : raw[i] = needle

\* translate_image_error_message, app.py lines 53-60
translate_image_error_message(raw_error_message) ==
  IF \/ Contains(raw_error_message, "image_generation_user_error")
     \/ Contains(raw_error_message, "safety system")
  THEN "uncomfortable elements were filtered automatically"
  ELSE IF \/ Contains(raw_error_message, "APIConnectionError")
          \/ Contains(raw_error_message, "500")
       THEN "temporary problem at the OpenAI server, try again later"
       ELSE IF Contains(raw_error_message, "AuthenticationError")
            THEN "the OpenAI API key is not valid"
            ELSE "image generation failed for an unknown reason"

\* the retriever handed to ReportGeneratorService by initialize_services
retriever_present == TRUE

-----------------------------------------------------------------------------
(* State *)

VARIABLES
  ss,                \* st.session_state
  audio_input,       \* the audio the recorder / uploader widget holds (audio_bytes)
  rerun_requested,   \* st.rerun() was called: the script runs again at once
  temp_file_exists,  \* the temporary audio file of the last audio block is on disk
  uncaught,          \* the call whose exception ended the last script run, or "none"
  calls,             \* the service calls of the last script run, in order
  last_moderation,   \* the moderation verdict on the current transcript, if any
  stt_failed,        \* the current transcript is a transcription failure text
  report_invocations,\* calls of generate_report_with_rag since the last reset
  report_log,        \* every call of generate_report_with_rag of the session
  report_valid,      \* the stored report came from a schema-valid generation
  synth_log,         \* every call of the two prompt-synthesis methods
  api_key_set,       \* the environment has a non-empty OPENAI_API_KEY
  index_loadable,    \* FAISS.load_local("faiss_index", ...) succeeds
  services,          \* "ready" once initialize_services returned (and is cached)
  stopped,           \* the last script run ended in st.stop() during start-up
  regenerated,       \* the last run was a view request made while an image
                     \* result of that view was already stored
  returned,          \* what the services called in the last view request returned
  moderation_failed, \* the moderation call on the current transcript raised
  audio_skipped      \* the last run skipped the audio block on a new audio input

startup == << api_key_set, index_loadable, services, stopped >>

vars == << ss, audio_input, rerun_requested, temp_file_exists, uncaught, calls,
           last_moderation, stt_failed, report_invocations, report_log,
           report_valid, synth_log, api_key_set, index_loadable, services,
           stopped, regenerated, returned, moderation_failed, audio_skipped >>

Call(op, failed) == [op |-> op, failed |-> failed]

Init ==
  /\ ss = session_defaults
  /\ audio_input = NoAudio
  /\ rerun_requested = FALSE
  /\ temp_file_exists = FALSE
  /\ uncaught = "none"
  /\ calls = <<>>
  /\ last_moderation = None
  /\ stt_failed = FALSE
  /\ report_invocations = 0
  /\ report_log = {}
  /\ report_valid = FALSE
  /\ synth_log = {}
  /\ api_key_set \in BOOLEAN
  /\ index_loadable \in BOOLEAN
  /\ services = "none"
  /\ stopped = FALSE
  /\ regenerated = FALSE
  /\ returned = <<>>
  /\ moderation_failed = FALSE
  /\ audio_skipped = FALSE

-----------------------------------------------------------------------------
(* The blocks of the script *)

\* variant: a failure to load the index is reported but does not stop
initialize_services_lenient(key, index) ==
  IF ~key
  THEN [services |-> "none", stopped |-> TRUE]
  ELSE [services |-> "ready", stopped |-> FALSE]

\* app.py lines 22-43: initialize_services; st.stop() ends the script run,
\* so nothing is returned (and nothing is cached)
initialize_services(key, index) ==
  IF ~key
  THEN [services |-> "none", stopped |-> TRUE]
  ELSE IF index
       THEN [services |-> "ready", stopped |-> FALSE]
       ELSE [services |-> "none", stopped |-> TRUE]

\* app.py line 121: the audio block runs
AudioBlockGuard(s, audio_bytes) == audio_bytes # NoAudio /\ ~s.audio_processed

\* variant: the flagged branch keeps the text
DreamTextAfterModeration_kept(transcribed_text, safety_result) == transcribed_text

\* app.py lines 132-137: the working text after the safety check
DreamTextAfterModeration(transcribed_text, safety_result) ==
  IF ~safety_result.flagged THEN transcribed_text ELSE ""

\* variant: the displayed transcript is cleared together with the working text
TranscribeAndModerate_swapped(s, stt, mod) ==
  LET transcribed_text == transcribe_audio(stt)
      safety_result    == check_text_safety(transcribed_text, mod)
      working          == IF ~safety_result.flagged THEN transcribed_text ELSE ""
  IN  [s EXCEPT !.original_dream_text = working,
                !.dream_text = working,
                !.audio_processed = TRUE]

\* variant: line 138 is missing, audio_processed is not set
TranscribeAndModerate_unmarked(s, stt, mod) ==
  LET transcribed_text == transcribe_audio(stt)
      safety_result    == check_text_safety(transcribed_text, mod)
  IN  [s EXCEPT !.original_dream_text = transcribed_text,
                !.dream_text = IF ~safety_result.flagged THEN transcribed_text ELSE ""]

\* app.py lines 129-138: the body of the spinner in the audio block
TranscribeAndModerate(s, stt, mod) ==
  LET transcribed_text == transcribe_audio(stt)
      safety_result    == check_text_safety(transcribed_text, mod)
  IN  [s EXCEPT !.original_dream_text = transcribed_text,
                !.dream_text = DreamTextAfterModeration(transcribed_text, safety_result),
                !.audio_processed = TRUE]

\* variant: the button is offered whenever a transcript is displayed
ShowAnalysisButton_any_transcript(s) ==
  s.original_dream_text # "" /\ ~s.analysis_started

\* app.py lines 145, 149-150: the confirm-analysis button is on the page
ShowAnalysisButton(s) ==
  s.original_dream_text # "" /\ s.dream_text # "" /\ ~s.analysis_started

\* variant: the test for an already stored report is missing
ReportBlockGuard_no_report_test(s) == s.analysis_started

\* app.py line 157: the report block runs
ReportBlockGuard(s) == s.analysis_started /\ s.dream_report = None

\* variant: a report without emotions and keywords is not stored and the
\* script is run again, which calls the generator again
ReportBlock_retrying(s, out) ==
  IF s.original_dream_text # ""
  THEN LET r == generate_report_with_rag(retriever_present, s.original_dream_text, out)
       IN  IF r.raised
           THEN [ss |-> s, called |-> TRUE, raised |-> TRUE, rerun |-> FALSE,
                 request |-> r.request]
           ELSE IF r.value.emotions = <<>> /\ r.value.keywords = <<>>
           THEN [ss |-> s, called |-> TRUE, raised |-> FALSE, rerun |-> TRUE,
                 request |-> r.request]
           ELSE [ss |-> [s EXCEPT !.dream_report = Some(r.value),
                                  !.nightmare_keywords = r.value.keywords],
                 called |-> TRUE, raised |-> FALSE, rerun |-> TRUE,
                 request |-> r.request]
  ELSE [ss |-> [s EXCEPT !.analysis_started = FALSE],
        called |-> FALSE, raised |-> FALSE, rerun |-> FALSE, request |-> None]

\* app.py lines 158-166: the report block; called says whether the
\* generator was invoked, raised whether its exception ended the run,
\* request what the generator sent to the chat model
ReportBlock(s, out) ==
  IF s.original_dream_text # ""
  THEN LET r == generate_report_with_rag(retriever_present, s.original_dream_text, out)
       IN  IF r.raised
           THEN [ss |-> s, called |-> TRUE, raised |-> TRUE, rerun |-> FALSE,
                 request |-> r.request]
           ELSE [ss |-> [s EXCEPT !.dream_report = Some(r.value),
                                  !.nightmare_keywords = r.value.keywords],
                 called |-> TRUE, raised |-> FALSE, rerun |-> TRUE,
                 request |-> r.request]
  ELSE [ss |-> [s EXCEPT !.analysis_started = FALSE],
        called |-> FALSE, raised |-> FALSE, rerun |-> FALSE, request |-> None]

\* app.py line 169: the result section (report and the two buttons) is on
\* the page; a report dict always has three keys, so it is truthy
ShowResults(s) == s.dream_report # None

\* variant: a failed prompt synthesis is swallowed and the image is still
\* requested, with an empty prompt
NightmareButton_swallowing(s, pout, img) ==
  LET report == s.dream_report[1]
      text == s.original_dream_text
      p == create_nightmare_prompt(text, report, pout)
      prompt == IF p.raised THEN "" ELSE p.value
      g == generate_image_from_prompt(prompt, img)
  IN  IF g.raised
      THEN [ss |-> [s EXCEPT !.nightmare_prompt = prompt],
            text |-> text, uncaught |-> "generate_image_from_prompt",
            calls |-> << Call("create_nightmare_prompt", p.raised),
                         Call("generate_image_from_prompt", TRUE) >>]
      ELSE [ss |-> [s EXCEPT !.nightmare_prompt = prompt,
                             !.nightmare_image_url = g.value],
            text |-> text, uncaught |-> "none",
            calls |-> << Call("create_nightmare_prompt", p.raised),
                         Call("generate_image_from_prompt", ~StartsWithHttp(g.value)) >>]

\* variant: a stored image result is reused instead of being generated again
NightmareButton_cached(s, pout, img) ==
  LET report == s.dream_report[1]
      text == s.original_dream_text
      p == create_nightmare_prompt(text, report, pout)
  IN  IF s.nightmare_image_url # <<>>
      THEN [ss |-> s, text |-> text, uncaught |-> "none", calls |-> <<>>]
      ELSE IF p.raised
      THEN [ss |-> s, text |-> text, uncaught |-> "create_nightmare_prompt",
            calls |-> << Call("create_nightmare_prompt", TRUE) >>]
      ELSE LET g == generate_image_from_prompt(p.value, img)
           IN  IF g.raised
               THEN [ss |-> [s EXCEPT !.nightmare_prompt = p.value],
                     text |-> text, uncaught |-> "generate_image_from_prompt",
                     calls |-> << Call("create_nightmare_prompt", FALSE),
                                  Call("generate_image_from_prompt", TRUE) >>]
               ELSE [ss |-> [s EXCEPT !.nightmare_prompt = p.value,
                                      !.nightmare_image_url = g.value],
                     text |-> text, uncaught |-> "none",
                     calls |-> << Call("create_nightmare_prompt", FALSE),
                                  Call("generate_image_from_prompt",
                                       ~StartsWithHttp(g.value)) >>]

\* variant: a failed prompt synthesis discards the report, so that the
\* report block generates it again
NightmareButton_reanalysing(s, pout, img) ==
  LET report == s.dream_report[1]
      text == s.original_dream_text
      p == create_nightmare_prompt(text, report, pout)
  IN  IF p.raised
      THEN [ss |-> [s EXCEPT !.dream_report = None], text |-> text,
            uncaught |-> "none",
            calls |-> << Call("create_nightmare_prompt", TRUE) >>]
      ELSE LET g == generate_image_from_prompt(p.value, img)
           IN  IF g.raised
               THEN [ss |-> [s EXCEPT !.nightmare_prompt = p.value],
                     text |-> text, uncaught |-> "generate_image_from_prompt",
                     calls |-> << Call("create_nightmare_prompt", FALSE),
                                  Call("generate_image_from_prompt", TRUE) >>]
               ELSE [ss |-> [s EXCEPT !.nightmare_prompt = p.value,
                                      !.nightmare_image_url = g.value],
                     text |-> text, uncaught |-> "none",
                     calls |-> << Call("create_nightmare_prompt", FALSE),
                                  Call("generate_image_from_prompt",
                                       ~StartsWithHttp(g.value)) >>]

\* variant: the method is given the stored nightmare prompt as dream text
NightmareButton_passing_prompt(s, pout, img) ==
  LET report == s.dream_report[1]
      text == s.nightmare_prompt
      p == create_nightmare_prompt(text, report, pout)
  IN  IF p.raised
      THEN [ss |-> s, text |-> text, uncaught |-> "create_nightmare_prompt",
            calls |-> << Call("create_nightmare_prompt", TRUE) >>]
      ELSE LET g == generate_image_from_prompt(p.value, img)
           IN  IF g.raised
               THEN [ss |-> [s EXCEPT !.nightmare_prompt = p.value],
                     text |-> text, uncaught |-> "generate_image_from_prompt",
                     calls |-> << Call("create_nightmare_prompt", FALSE),
                                  Call("generate_image_from_prompt", TRUE) >>]
               ELSE [ss |-> [s EXCEPT !.nightmare_prompt = p.value,
                                      !.nightmare_image_url = g.value],
                     text |-> text, uncaught |-> "none",
                     calls |-> << Call("create_nightmare_prompt", FALSE),
                                  Call("generate_image_from_prompt",
                                       ~StartsWithHttp(g.value)) >>]

\* app.py lines 198-203: the nightmare button
NightmareButton(s, pout, img) ==
  LET report == s.dream_report[1]
      text == s.original_dream_text
      p == create_nightmare_prompt(text, report, pout)
  IN  IF p.raised
      THEN [ss |-> s, text |-> text, uncaught |-> "create_nightmare_prompt",
            calls |-> << Call("create_nightmare_prompt", TRUE) >>]
      ELSE LET g == generate_image_from_prompt(p.value, img)
           IN  IF g.raised
               THEN \* line 201 has stored the prompt, line 202 raises
                    [ss |-> [s EXCEPT !.nightmare_prompt = p.value],
                     text |-> text, uncaught |-> "generate_image_from_prompt",
                     calls |-> << Call("create_nightmare_prompt", FALSE),
                                  Call("generate_image_from_prompt", TRUE) >>]
               ELSE [ss |-> [s EXCEPT !.nightmare_prompt = p.value,
                                      !.nightmare_image_url = g.value],
                     text |-> text, uncaught |-> "none",
                     calls |-> << Call("create_nightmare_prompt", FALSE),
                                  Call("generate_image_from_prompt",
                                       ~StartsWithHttp(g.value)) >>]

\* variant: the keywords are taken out of the report dict (pop instead of
\* get), which changes the stored report
ReconstructionButton_popping(s, rout, img) ==
  LET report == s.dream_report[1]
      text == s.original_dream_text
      popped == [s EXCEPT !.dream_report = Some([report EXCEPT !.keywords = <<>>])]
      r == create_reconstructed_prompt_and_analysis(text, report, rout)
  IN  IF r.raised
      THEN [ss |-> popped, text |-> text,
            uncaught |-> "create_reconstructed_prompt_and_analysis",
            calls |-> << Call("create_reconstructed_prompt_and_analysis", TRUE) >>]
      ELSE LET stored == [popped EXCEPT
                            !.reconstructed_prompt = r.value.reconstructed_prompt,
                            !.transformation_summary = r.value.transformation_summary,
                            !.keyword_mappings = r.value.keyword_mappings]
               g == generate_image_from_prompt(r.value.reconstructed_prompt, img)
           IN  IF g.raised
               THEN [ss |-> stored,
                     text |-> text, uncaught |-> "generate_image_from_prompt",
                     calls |-> << Call("create_reconstructed_prompt_and_analysis", FALSE),
                                  Call("generate_image_from_prompt", TRUE) >>]
               ELSE [ss |-> [stored EXCEPT !.reconstructed_image_url = g.value],
                     text |-> text, uncaught |-> "none",
                     calls |-> << Call("create_reconstructed_prompt_and_analysis", FALSE),
                                  Call("generate_image_from_prompt",
                                       ~StartsWithHttp(g.value)) >>]

\* variant: a reconstruction request drops the stored nightmare view
ReconstructionButton_clearing(s, rout, img) ==
  LET report == s.dream_report[1]
      text == s.original_dream_text
      r == create_reconstructed_prompt_and_analysis(text, report, rout)
  IN  IF r.raised
      THEN [ss |-> s, text |-> text,
            uncaught |-> "create_reconstructed_prompt_and_analysis",
            calls |-> << Call("create_reconstructed_prompt_and_analysis", TRUE) >>]
      ELSE LET stored == [s EXCEPT
                            !.reconstructed_prompt = r.value.reconstructed_prompt,
                            !.transformation_summary = r.value.transformation_summary,
                            !.keyword_mappings = r.value.keyword_mappings,
                            !.nightmare_prompt = "",
                            !.nightmare_image_url = <<>>]
               g == generate_image_from_prompt(r.value.reconstructed_prompt, img)
           IN  IF g.raised
               THEN [ss |-> stored,
                     text |-> text, uncaught |-> "generate_image_from_prompt",
                     calls |-> << Call("create_reconstructed_prompt_and_analysis", FALSE),
                                  Call("generate_image_from_prompt", TRUE) >>]
               ELSE [ss |-> [stored EXCEPT !.reconstructed_image_url = g.value],
                     text |-> text, uncaught |-> "none",
                     calls |-> << Call("create_reconstructed_prompt_and_analysis", FALSE),
                                  Call("generate_image_from_prompt",
                                       ~StartsWithHttp(g.value)) >>]

\* app.py lines 205-210: the reconstruction button
ReconstructionButton(s, rout, img) ==
  LET report == s.dream_report[1]
      text == s.original_dream_text
      r == create_reconstructed_prompt_and_analysis(text, report, rout)
  IN  IF r.raised
      THEN [ss |-> s, text |-> text,
            uncaught |-> "create_reconstructed_prompt_and_analysis",
            calls |-> << Call("create_reconstructed_prompt_and_analysis", TRUE) >>]
      ELSE LET stored == [s EXCEPT
                            !.reconstructed_prompt = r.value.reconstructed_prompt,
                            !.transformation_summary = r.value.transformation_summary,
                            !.keyword_mappings = r.value.keyword_mappings]
               g == generate_image_from_prompt(r.value.reconstructed_prompt, img)
           IN  IF g.raised
               THEN \* line 208 has stored the three results, line 209 raises
                    [ss |-> stored,
                     text |-> text, uncaught |-> "generate_image_from_prompt",
                     calls |-> << Call("create_reconstructed_prompt_and_analysis", FALSE),
                                  Call("generate_image_from_prompt", TRUE) >>]
               ELSE [ss |-> [stored EXCEPT !.reconstructed_image_url = g.value],
                     text |-> text, uncaught |-> "none",
                     calls |-> << Call("create_reconstructed_prompt_and_analysis", FALSE),
                                  Call("generate_image_from_prompt",
                                       ~StartsWithHttp(g.value)) >>]

-----------------------------------------------------------------------------
(* Script runs *)

\* A script run while no services are cached (page load): line 75 calls
\* initialize_services; when it stops, nothing below line 75 runs.
Startup ==
  /\ services = "none"
  /\ LET r == initialize_services(api_key_set, index_loadable)
     IN  /\ services' = r.services
         /\ stopped' = r.stopped
  /\ UNCHANGED << ss, audio_input, rerun_requested, temp_file_exists, uncaught,
                  calls, last_moderation, stt_failed,
                  moderation_failed, report_invocations,
                  report_log, report_valid, synth_log, api_key_set,
                  index_loadable, regenerated, returned, audio_skipped >>

\* A new recording or upload arrives and the audio block runs
\* (app.py lines 121-142).
AudioProcessing(a, tmp, stt, mod) ==
  /\ services = "ready"
  /\ UNCHANGED startup
  /\ audio_skipped' = FALSE
  /\ regenerated' = FALSE
  /\ returned' = <<>>
  /\ ~rerun_requested
  /\ AudioBlockGuard(ss, a)
  /\ audio_input' = a
  /\ report_invocations' = 0
  /\ report_valid' = FALSE
  /\ UNCHANGED << report_log, synth_log >>
  /\ IF tmp = "ok"
     THEN LET transcribed_text == transcribe_audio(stt)
              safety_result == check_text_safety(transcribed_text, mod)
          IN  /\ ss' = TranscribeAndModerate(initialize_session_state(ss), stt, mod)
              /\ calls' = << Call("transcribe_audio", stt.kind # "ok"),
                             Call("check_text_safety", mod = "error") >>
              /\ last_moderation' = Some([text |-> transcribed_text,
                                          flagged |-> safety_result.flagged])
              /\ stt_failed' = (stt.kind # "ok")
              /\ moderation_failed' = (mod = "error")
              /\ temp_file_exists' = FALSE
              /\ uncaught' = "none"
              /\ rerun_requested' = TRUE
     ELSE \* the exception leaves the block through finally, where
          \* audio_path is still None: nothing is removed
          /\ ss' = initialize_session_state(ss)
          /\ calls' = <<>>
          /\ last_moderation' = None
          /\ stt_failed' = FALSE
          /\ moderation_failed' = FALSE
          /\ temp_file_exists' = (tmp = "write_fails")
          /\ uncaught' = "tempfile"
          /\ rerun_requested' = FALSE

\* A new recording or upload arrives after an audio was processed: the
\* audio block is skipped (app.py line 121) and the page is drawn again.
AudioIgnored(a) ==
  /\ services = "ready"
  /\ UNCHANGED startup
  /\ audio_skipped' = TRUE
  /\ regenerated' = FALSE
  /\ returned' = <<>>
  /\ ~rerun_requested
  /\ a # NoAudio
  /\ a # audio_input
  /\ ~AudioBlockGuard(ss, a)
  /\ ~ReportBlockGuard(ss)
  /\ audio_input' = a
  /\ calls' = <<>>
  /\ uncaught' = "none"
  /\ UNCHANGED << ss, rerun_requested, temp_file_exists, last_moderation,
                  stt_failed,
                  moderation_failed, report_invocations, report_log, report_valid,
                  synth_log >>

\* The user presses the confirm-analysis button (app.py lines 149-152).
ConfirmAnalysis ==
  /\ services = "ready"
  /\ UNCHANGED startup
  /\ audio_skipped' = FALSE
  /\ regenerated' = FALSE
  /\ returned' = <<>>
  /\ ~rerun_requested
  /\ ~AudioBlockGuard(ss, audio_input)
  /\ ShowAnalysisButton(ss)
  /\ ss' = [ss EXCEPT !.analysis_started = TRUE]
  /\ rerun_requested' = TRUE
  /\ calls' = <<>>
  /\ uncaught' = "none"
  /\ UNCHANGED << audio_input, temp_file_exists, last_moderation, stt_failed,
                  moderation_failed,
                  report_invocations, report_log, report_valid, synth_log >>

\* A script run in which the report block acts (app.py lines 157-166).
GenerateReport(out) ==
  /\ services = "ready"
  /\ UNCHANGED startup
  /\ audio_skipped' = FALSE
  /\ regenerated' = FALSE
  /\ returned' = <<>>
  /\ ~AudioBlockGuard(ss, audio_input)
  /\ ReportBlockGuard(ss)
  /\ LET b == ReportBlock(ss, out)
     IN  /\ ss' = b.ss
         /\ rerun_requested' = b.rerun
         /\ uncaught' = IF b.raised THEN "generate_report_with_rag" ELSE "none"
         /\ calls' = IF b.called
                     THEN << Call("generate_report_with_rag", out.kind # "parsed") >>
                     ELSE <<>>
         /\ report_invocations' = report_invocations + (IF b.called THEN 1 ELSE 0)
         /\ report_log' = IF b.called
                          THEN report_log \cup
                                 { [text |-> ss.original_dream_text,
                                    dream_text |-> ss.dream_text,
                                    moderation |-> last_moderation,
                                    failed |-> out.kind # "parsed",
                                    docs |-> out.docs,
                                    request |-> b.request,
                                    parsed |-> IF out.kind = "parsed"
                                               THEN Some(out.report) ELSE None] }
                          ELSE report_log
         /\ report_valid' = (b.called /\ ~b.raised /\ out.kind = "parsed")
  /\ UNCHANGED << audio_input, temp_file_exists, last_moderation, stt_failed,
                  moderation_failed,
                  synth_log >>

\* The script run after st.rerun() in which no block acts: the page is drawn.
Rerun ==
  /\ services = "ready"
  /\ UNCHANGED startup
  /\ audio_skipped' = FALSE
  /\ regenerated' = FALSE
  /\ returned' = <<>>
  /\ rerun_requested
  /\ ~AudioBlockGuard(ss, audio_input)
  /\ ~ReportBlockGuard(ss)
  /\ rerun_requested' = FALSE
  /\ calls' = <<>>
  /\ uncaught' = "none"
  /\ UNCHANGED << ss, audio_input, temp_file_exists, last_moderation,
                  stt_failed,
                  moderation_failed, report_invocations, report_log, report_valid,
                  synth_log >>

\* The user presses the nightmare button (app.py lines 198-203).
NightmareView(pout, img) ==
  /\ services = "ready"
  /\ UNCHANGED startup
  /\ audio_skipped' = FALSE
  /\ regenerated' = (ss.nightmare_image_url # <<>>)
  /\ returned' =
       LET p == create_nightmare_prompt(ss.original_dream_text, ss.dream_report[1], pout)
           g == generate_image_from_prompt(p.value, img)
       IN  IF p.raised THEN <<>>
           ELSE IF g.raised THEN << p.value >> ELSE << p.value, g.value >>
  /\ ~rerun_requested
  /\ ~AudioBlockGuard(ss, audio_input)
  /\ ~ReportBlockGuard(ss)
  /\ ShowResults(ss)
  /\ LET b == NightmareButton(ss, pout, img)
     IN  /\ ss' = b.ss
         /\ uncaught' = b.uncaught
         /\ calls' = b.calls
         /\ rerun_requested' = (b.uncaught = "none")
  /\ synth_log' = synth_log \cup
       { [op |-> "create_nightmare_prompt", report |-> ss.dream_report[1],
          report_valid |-> report_valid,
          text |-> NightmareButton(ss, pout, img).text,
          dream_text |-> ss.dream_text, moderation |-> last_moderation] }
  /\ UNCHANGED << audio_input, temp_file_exists, last_moderation, stt_failed,
                  moderation_failed,
                  report_invocations, report_log, report_valid >>

\* The user presses the reconstruction button (app.py lines 205-210).
ReconstructionView(rout, img) ==
  /\ services = "ready"
  /\ UNCHANGED startup
  /\ audio_skipped' = FALSE
  /\ regenerated' = (ss.reconstructed_image_url # <<>>)
  /\ returned' =
       LET r == create_reconstructed_prompt_and_analysis(
                  ss.original_dream_text, ss.dream_report[1], rout)
           g == generate_image_from_prompt(r.value.reconstructed_prompt, img)
       IN  IF r.raised THEN <<>>
           ELSE IF g.raised THEN << r.value >> ELSE << r.value, g.value >>
  /\ ~rerun_requested
  /\ ~AudioBlockGuard(ss, audio_input)
  /\ ~ReportBlockGuard(ss)
  /\ ShowResults(ss)
  /\ LET b == ReconstructionButton(ss, rout, img)
     IN  /\ ss' = b.ss
         /\ uncaught' = b.uncaught
         /\ calls' = b.calls
         /\ rerun_requested' = (b.uncaught = "none")
  /\ synth_log' = synth_log \cup
       { [op |-> "create_reconstructed_prompt_and_analysis",
          report |-> ss.dream_report[1], report_valid |-> report_valid,
          text |-> ReconstructionButton(ss, rout, img).text,
          dream_text |-> ss.dream_text, moderation |-> last_moderation] }
  /\ UNCHANGED << audio_input, temp_file_exists, last_moderation, stt_failed,
                  moderation_failed,
                  report_invocations, report_log, report_valid >>

Next ==
  \/ Startup
  \/ \E a \in AudioInputs, tmp \in TempFileOutcomes, stt \in SttOutcomes,
        mod \in ModerationOutcomes : AudioProcessing(a, tmp, stt, mod)
  \/ \E a \in AudioInputs : AudioIgnored(a)
  \/ ConfirmAnalysis
  \/ \E out \in ReportChainOutcomes : GenerateReport(out)
  \/ Rerun
  \/ \E pout \in NightmareChainOutcomes, img \in ImageOutcomes : NightmareView(pout, img)
  \/ \E rout \in ReconstructionChainOutcomes, img \in ImageOutcomes :
        ReconstructionView(rout, img)

Spec == Init /\ [][Next]_vars

-----------------------------------------------------------------------------
(* Properties *)

Flagged(m) == m # None /\ m[1].flagged

\* C1: every call of the Report Generator is preceded, in the same session
\* and for the same text, by a moderation check that returned flagged = false.
C1_ReportOnlyAfterPassedModeration ==
  \A c \in report_log :
    /\ c.moderation # None
    /\ ~c.moderation[1].flagged
    /\ c.moderation[1].text = c.text

\* the Report Generator was invoked on a moderated transcript
C1_Witness ==
  \E c \in report_log : c.text = "chased by a shadow in a dark forest"

\* C2: once moderation has flagged the transcript (the empty transcript
\* included), dream_text is cleared, analysis_started is false and the
\* Report Generator has not been invoked, in every later state.
C2_FlaggedNeverReachesReport ==
  Flagged(last_moderation) =>
    /\ ss.dream_text = ""
    /\ ~ss.analysis_started
    /\ ~ShowAnalysisButton(ss)
    /\ report_invocations = 0

\* moderation flagged the empty transcript and the page was drawn again
C2_Witness ==
  /\ last_moderation = Some([text |-> "", flagged |-> TRUE])
  /\ ss.audio_processed
  /\ ~rerun_requested

\* the state derived from a transcript is at its defaults
DerivedStateCleared(s) ==
  /\ ~s.analysis_started
  /\ s.dream_report = None
  /\ s.nightmare_prompt = ""
  /\ s.reconstructed_prompt = ""
  /\ s.transformation_summary = ""
  /\ s.keyword_mappings = <<>>
  /\ s.nightmare_image_url = <<>>
  /\ s.reconstructed_image_url = <<>>
  /\ s.nightmare_keywords = <<>>

\* C3: from any state, the arrival of a new audio input resets the whole
\* session state (report, prompts, keyword mappings, image handles) to its
\* defaults.
C3_NewAudioResets ==
  [][ (audio_input' # audio_input /\ audio_input' # NoAudio)
        => DerivedStateCleared(ss') ]_vars

\* C4: when transcription fails, the failure text never becomes the working
\* dream_text, the analysis confirmation is never offered and the Report
\* Generator is never invoked on it.
C4_FailedTranscriptionHalts ==
  stt_failed =>
    /\ ss.dream_text = ""
    /\ ~ShowAnalysisButton(ss)
    /\ ~ss.analysis_started
    /\ report_invocations = 0

\* C5: when the Report Generator fails, dream_report stays absent and
\* analysis_started is set back to false.
C5_FailedReportUnsetsConfirmation ==
  (calls = << Call("generate_report_with_rag", TRUE) >>) =>
    /\ ss.dream_report = None
    /\ ~ss.analysis_started

\* C6: neither prompt-synthesis method is ever invoked with a report that
\* was not produced by a successful, schema-valid generation.
C6_SynthesisOnlyOnValidReport ==
  \A c \in synth_log : c.report_valid

\* C7: while dream_report is populated the Report Generator is not invoked
\* and the stored report is not replaced or modified; between two resets
\* there is at most one report-generation call.
C7_ReportGeneratedOnce ==
  /\ [](report_invocations <= 1)
  /\ [][ (ss.dream_report # None /\ ~AudioBlockGuard(ss, audio_input'))
           => /\ ss'.dream_report = ss.dream_report
              /\ report_invocations' = report_invocations ]_vars

\* a report is stored and both views were requested after it
C7_Witness ==
  /\ ss.dream_report # None
  /\ report_invocations = 1
  /\ ss.nightmare_image_url # <<>>
  /\ ss.reconstructed_image_url # <<>>

ExternalCalls ==
  { "transcribe_audio", "check_text_safety", "generate_report_with_rag",
    "create_nightmare_prompt", "create_reconstructed_prompt_and_analysis",
    "generate_image_from_prompt" }

\* C8: no exception of an external call leaves its service wrapper and ends
\* a script run.
C8_NoUncaughtExternalFailure == uncaught \notin ExternalCalls

ViewSynthesisOps ==
  { "create_nightmare_prompt", "create_reconstructed_prompt_and_analysis" }

FailedViewRequest(cs) ==
  \E i \in DOMAIN cs :
    cs[i].failed /\ cs[i].op \in ViewSynthesisOps \cup {"generate_image_from_prompt"}

\* C9: a view request in which prompt synthesis or image synthesis fails
\* stops at the failing step (no image synthesis after a failed prompt
\* synthesis) and leaves dream_report as it was.
C9_ViewFailureKeepsReport ==
  [][ FailedViewRequest(calls')
        => /\ ss'.dream_report = ss.dream_report
           /\ \A i \in DOMAIN calls' :
                (calls'[i].op \in ViewSynthesisOps /\ calls'[i].failed)
                  => i = Len(calls') ]_vars

\* a nightmare request whose prompt synthesis failed, after a reconstruction
\* request whose image synthesis failed
C9_Witness ==
  /\ calls = << Call("create_nightmare_prompt", TRUE) >>
  /\ ss.dream_report # None
  /\ ss.reconstructed_prompt # ""
  /\ ~StartsWithHttp(ss.reconstructed_image_url)

\* C10: when report generation fails, generate_report_with_rag does not
\* raise; the caller stores and shows a report with empty emotions and empty
\* keywords and the session goes on (st.rerun()).
C10_FailedReportIsDegraded ==
  (calls = << Call("generate_report_with_rag", TRUE) >>) =>
    /\ uncaught = "none"
    /\ ShowResults(ss)
    /\ ss.dream_report[1].emotions = <<>>
    /\ ss.dream_report[1].keywords = <<>>
    /\ rerun_requested

\* the report chain failed on a schema error and its report is stored
C10_Witness ==
  /\ calls = << Call("generate_report_with_rag", TRUE) >>
  /\ ss.dream_report = Some(DegradedReport("schema_error"))

\* C11: every report stored from a successful generation has all emotion
\* scores in [0.0, 1.0] (0..100 hundredths) and non-empty keywords whenever
\* emotions is non-empty.
C11_StoredReportConforms ==
  (report_valid /\ ss.dream_report # None) =>
    LET r == ss.dream_report[1]
    IN  /\ \A i \in DOMAIN r.emotions : r.emotions[i].score \in 0..100
        /\ (r.emotions # <<>> => r.keywords # <<>>)

\* C12: every stored reconstruction result has between 3 and 5 keyword
\* mappings, each with transformed different from original.
C12_StoredMappingsConform ==
  (ss.reconstructed_prompt # "") =>
    /\ Len(ss.keyword_mappings) \in 3..5
    /\ \A i \in DOMAIN ss.keyword_mappings :
         ss.keyword_mappings[i].transformed # ss.keyword_mappings[i].original

\* the image result the last view request stored
LastImageResult ==
  IF calls[1].op = "create_nightmare_prompt"
  THEN ss.nightmare_image_url
  ELSE ss.reconstructed_image_url

\* C13: whatever the provider does, generate_image_from_prompt returns a
\* non-empty string (the URL or a failure message).
C13_ImageResultNeverEmpty ==
  (Len(calls) = 2 /\ calls[2].op = "generate_image_from_prompt") =>
    /\ uncaught # "generate_image_from_prompt"
    /\ LastImageResult # <<>>

\* a run that called one of the two prompt-synthesis methods
ViewRequest(cs) == cs # <<>> /\ cs[1].op \in ViewSynthesisOps

\* C14: a nightmare or reconstruction request, whatever came before it,
\* leaves the stored dream_report as it was, and both methods are always
\* called with that stored report.
C14_SynthesisLeavesReport ==
  /\ [][ ViewRequest(calls') => ss'.dream_report = ss.dream_report ]_vars
  /\ [](\A c \in synth_log : ss.dream_report = Some(c.report))

\* both methods were called, the nightmare one last and after a stored
\* reconstruction
C14_Witness ==
  /\ { c.op : c \in synth_log } = ViewSynthesisOps
  /\ ViewRequest(calls)
  /\ calls[1].op = "create_nightmare_prompt"
  /\ ss.nightmare_image_url # <<>>
  /\ ss.reconstructed_image_url # <<>>
  /\ ss.dream_report = Some(GoodReport)

\* C16: once the audio block has ended, the temporary audio file it created
\* no longer exists, on every path.
C16_TempFileRemoved == ~temp_file_exists

\* C15: when the API credential is missing or the knowledge index cannot be
\* loaded, start-up stops: no services are returned and no session step
\* (transcription, moderation, report, prompt or image synthesis) ever runs.
C15_BadConfigNeverServes ==
  ~(api_key_set /\ index_loadable) =>
    /\ services = "none"
    /\ calls = <<>>
    /\ last_moderation = None
    /\ report_log = {}
    /\ synth_log = {}
    /\ audio_input = NoAudio
    /\ ss = session_defaults

\* the credential is set, the index cannot be loaded, and a run was stopped
C15_Witness == stopped /\ api_key_set /\ ~index_loadable

\* the image results that an authentication error / a transient error
\* (rate limit, server error) of the image provider leads to
ImageResultsOfStatus(statuses) ==
  { generate_image_from_prompt("", img).value :
      img \in { o \in ImageOutcomes : o.kind = "api_error" /\ o.status \in statuses } }

\* C17: the message shown for an authentication failure is the
\* credential-specific one and differs from the message shown for any
\* transient failure, for transcription and for image synthesis.
C17_AuthMessageDistinct ==
  /\ \A url \in { ss.nightmare_image_url, ss.reconstructed_image_url } :
       url \in ImageResultsOfStatus({"401"}) =>
         /\ translate_image_error_message(url) = "the OpenAI API key is not valid"
         /\ \A t \in ImageResultsOfStatus({"429", "500"}) :
              translate_image_error_message(t) # translate_image_error_message(url)
  /\ (stt_failed /\ ss.original_dream_text
                      = transcribe_audio([kind |-> "auth", text |-> ""])) =>
       \A k \in {"rate_limit", "connection"} :
         transcribe_audio([kind |-> k, text |-> ""]) # ss.original_dream_text

\* C18: nothing is cached: a view request made while a result of that view
\* is stored calls prompt synthesis again and, when that returns, image
\* synthesis again, and what they return replaces the stored results.
C18_ViewRequestRegenerates ==
  [][ regenerated' =>
        /\ ViewRequest(calls')
        /\ ~calls'[1].failed =>
             /\ Len(calls') = 2
             /\ calls'[2].op = "generate_image_from_prompt"
             /\ Len(returned') >= 1
             /\ IF calls'[1].op = "create_nightmare_prompt"
                THEN /\ ss'.nightmare_prompt = returned'[1]
                     /\ Len(returned') = 2 => ss'.nightmare_image_url = returned'[2]
                ELSE /\ ss'.reconstructed_prompt = returned'[1].reconstructed_prompt
                     /\ ss'.transformation_summary = returned'[1].transformation_summary
                     /\ ss'.keyword_mappings = returned'[1].keyword_mappings
                     /\ Len(returned') = 2 => ss'.reconstructed_image_url = returned'[2]
    ]_vars

\* the nightmare view was requested again and the stored failure message
\* was replaced by a URL
C18_Witness ==
  /\ regenerated
  /\ calls = << Call("create_nightmare_prompt", FALSE),
                Call("generate_image_from_prompt", FALSE) >>
  /\ StartsWithHttp(ss.nightmare_image_url)

\* C19: nothing is retried automatically: a script run calls each service at
\* most once, and the run that follows a run with service calls without a
\* new user action (st.rerun()) calls no service.
C19_NoAutomaticRetry ==
  /\ [](\A i, j \in DOMAIN calls : i # j => calls[i].op # calls[j].op)
  /\ [][ (rerun_requested /\ calls # <<>>) => calls' = <<>> ]_vars

\* report generation failed once, the automatic run after it is over and
\* the generator was not called again
C19_Witness ==
  /\ \E c \in report_log : c.failed
  /\ report_invocations = 1
  /\ ~rerun_requested
  /\ calls = <<>>

\* C20: when retrieval returns no passage, the context is empty, the chat
\* model is still called with the dream text, and a schema-valid answer is
\* stored as a normal report.
C20_EmptyRetrievalStillReports ==
  \A c \in report_log :
    c.docs = <<>> =>
      /\ c.request = Some([context |-> <<>>, dream_text |-> c.text])
      /\ c.parsed # None => (report_valid /\ ss.dream_report = c.parsed)

\* no passage was retrieved and the parsed report is stored
C20_Witness ==
  /\ \E c \in report_log : c.docs = <<>> /\ c.parsed = Some(GoodReport)
  /\ ss.dream_report = Some(GoodReport)

\* C21: after every audio-processing step original_dream_text is the
\* transcript transcription returned and dream_text is "" if moderation
\* flagged it and the transcript otherwise; in every state dream_text is
\* empty or equal to original_dream_text.
C21_WorkingTextFromTranscript ==
  /\ ss.dream_text \in {"", ss.original_dream_text}
  /\ (calls # <<>> /\ calls[1].op = "transcribe_audio") =>
       /\ last_moderation # None
       /\ ss.original_dream_text = last_moderation[1].text
       /\ ss.dream_text = IF last_moderation[1].flagged
                          THEN "" ELSE last_moderation[1].text

\* the audio block has just run on a transcript that moderation flagged
C21_Witness ==
  /\ calls # <<>>
  /\ calls[1].op = "transcribe_audio"
  /\ Flagged(last_moderation)
  /\ ss.original_dream_text = "chased by a shadow in a dark forest"
  /\ ss.dream_text = ""

UpstreamOps == { "transcribe_audio", "check_text_safety", "generate_report_with_rag" }

\* what the steps before prompt synthesis produced is left as it was
UpstreamUnchanged ==
  /\ ss'.original_dream_text = ss.original_dream_text
  /\ ss'.dream_text = ss.dream_text
  /\ ss'.analysis_started = ss.analysis_started
  /\ ss'.dream_report = ss.dream_report
  /\ last_moderation' = last_moderation
  /\ report_invocations' = report_invocations

\* C22: data flows forward only: a nightmare or reconstruction request,
\* successful or failed, and the run st.rerun() starts after it, call neither
\* transcription nor moderation nor the Report Generator and change none of
\* original_dream_text, dream_text, analysis_started, dream_report.
C22_DataFlowsForward ==
  [][ (ViewRequest(calls') \/ (ViewRequest(calls) /\ rerun_requested))
        => /\ \A i \in DOMAIN calls' : calls'[i].op \notin UpstreamOps
           /\ UpstreamUnchanged ]_vars

\* a reconstruction request failed in prompt synthesis after a nightmare
\* image was stored
C22_Witness ==
  /\ calls = << Call("create_reconstructed_prompt_and_analysis", TRUE) >>
  /\ StartsWithHttp(ss.nightmare_image_url)
  /\ ss.analysis_started
  /\ report_invocations = 1

NightmareFields(s) == << s.nightmare_prompt, s.nightmare_image_url >>

ReconstructionFields(s) ==
  << s.reconstructed_prompt, s.transformation_summary, s.keyword_mappings,
     s.reconstructed_image_url >>

\* C23: the two views are independent: whenever the result section is on the
\* page both requests can be made, whatever is stored for the other view; a
\* nightmare request leaves the four reconstruction keys unchanged and a
\* reconstruction request leaves the two nightmare keys unchanged.
C23_ViewsIndependent ==
  /\ []( (ShowResults(ss) /\ ~rerun_requested) =>
           /\ ENABLED (\E pout \in NightmareChainOutcomes, img \in ImageOutcomes :
                         NightmareView(pout, img))
           /\ ENABLED (\E rout \in ReconstructionChainOutcomes, img \in ImageOutcomes :
                         ReconstructionView(rout, img)) )
  /\ [][ /\ (ViewRequest(calls') /\ calls'[1].op = "create_nightmare_prompt")
              => ReconstructionFields(ss') = ReconstructionFields(ss)
         /\ (ViewRequest(calls')
               /\ calls'[1].op = "create_reconstructed_prompt_and_analysis")
              => NightmareFields(ss') = NightmareFields(ss) ]_vars

\* the reconstructed image was reached first, without any nightmare request,
\* and the page is drawn
C23_Witness ==
  /\ StartsWithHttp(ss.reconstructed_image_url)
  /\ NightmareFields(ss) = << "", <<>> >>
  /\ \A c \in synth_log : c.op = "create_reconstructed_prompt_and_analysis"
  /\ ~rerun_requested

\* the summaries generate_report_with_rag writes when the chain raised
ReportFailureTexts ==
  { DegradedReport(k).analysis_summary : k \in {"provider_error", "schema_error"} }

\* C24: no stored dream_report has an analysis_summary that carries the
\* failure text of a report generation.
C24_FailureTextNeverStored ==
  ss.dream_report # None =>
    ss.dream_report[1].analysis_summary \notin ReportFailureTexts

\* C25: moderation fails closed: when the moderation call raised, the verdict
\* is flagged, dream_text is cleared as for a flagged text, the confirmation
\* is not offered and the Report Generator is never invoked.
C25_ModerationFailsClosed ==
  moderation_failed =>
    /\ Flagged(last_moderation)
    /\ ss.dream_text = ""
    /\ ss.dream_text = DreamTextAfterModeration(
                         ss.original_dream_text,
                         check_text_safety(ss.original_dream_text, "flagged"))
    /\ ~ShowAnalysisButton(ss)
    /\ ~ss.analysis_started
    /\ report_invocations = 0

\* the moderation call raised on a real transcript and the page was drawn
C25_Witness ==
  /\ moderation_failed
  /\ ss.original_dream_text = "chased by a shadow in a dark forest"
  /\ ss.audio_processed
  /\ ~rerun_requested

\* the text t handed to a generator in call c is non-empty, is the working
\* dream_text of that moment and passed moderation
ModeratedText(t, c) ==
  /\ t # ""
  /\ t = c.dream_text
  /\ c.moderation # None
  /\ ~c.moderation[1].flagged
  /\ c.moderation[1].text = t

\* C26: the text passed to the Report Generator and to both prompt-synthesis
\* methods is non-empty and equal to the moderation-passed dream_text.
C26_GeneratorsGetModeratedText ==
  /\ \A c \in report_log :
       c.request # None /\ ModeratedText(c.request[1].dream_text, c)
  /\ \A c \in synth_log : ModeratedText(c.text, c)

\* the Report Generator and both prompt-synthesis methods were called
C26_Witness ==
  /\ report_log # {}
  /\ { c.op : c \in synth_log } = ViewSynthesisOps
  /\ ss.dream_text = "chased by a shadow in a dark forest"
  /\ calls = <<>>

AudioOps == { "transcribe_audio", "check_text_safety" }

\* C27: once an audio input has been processed, audio_processed stays true
\* and no later run calls transcription or moderation, whatever audio
\* arrives; every run that transcribes sets audio_processed.
C27_OneTranscriptionPerSession ==
  /\ [](audio_skipped => (ss.audio_processed /\ calls = <<>>))
  /\ [][ /\ ss.audio_processed =>
              /\ ss'.audio_processed
              /\ \A i \in DOMAIN calls' : calls'[i].op \notin AudioOps
         /\ (\E i \in DOMAIN calls' : calls'[i].op \in AudioOps)
              => ss'.audio_processed ]_vars

\* a report is stored and a new audio input has just been skipped
C27_Witness ==
  /\ audio_skipped
  /\ ss.audio_processed
  /\ ss.dream_report # None

\* C28: a stored image result is the result of image synthesis on the stored
\* prompt of the same request: whenever a request replaces the stored prompt
\* (with the summary and mappings, for a reconstruction) while an image result
\* is stored, that image result is the one image synthesis returned in the
\* same request.
C28_ImageMatchesPrompt ==
  [][ /\ (ss'.nightmare_prompt # ss.nightmare_prompt
            /\ ss'.nightmare_image_url # <<>>)
           => /\ Len(returned') = 2
              /\ ss'.nightmare_image_url = returned'[2]
      /\ (<< ss'.reconstructed_prompt, ss'.transformation_summary,
             ss'.keyword_mappings >>
            # << ss.reconstructed_prompt, ss.transformation_summary,
                 ss.keyword_mappings >>
            /\ ss'.reconstructed_image_url # <<>>)
           => /\ Len(returned') = 2
              /\ ss'.reconstructed_image_url = returned'[2] ]_vars

====
